---- MODULE Spec2Model ----
(***************************************************************************)
(* A model of the two Glyphs.app macro scripts of this repository:         *)
(*                                                                         *)
(*   download-fontmake-pyz-from-gh.py   ("Download latest fontmake")       *)
(*       main -> get_latest_release_tag -> download_and_extract_zip        *)
(*            -> get_redirected_url -> urlretrieve/extract/rename/cleanup  *)
(*   export-font-with-fontmake.py       ("Export with fontmake")           *)
(*       run_subprocess_in_macro_window: Popen, poll/read loop, wait       *)
(*                                                                         *)
(* Strings are sequences of tokens (a tag is a sequence of characters, a   *)
(* file name the concatenation of its fixed parts and the version), so     *)
(* that str.startswith, slicing, str.format and Path.stem are computed,    *)
(* not assumed.  The GitHub servers, the zip archive and the child process *)
(* are the environment; their answers are drawn from small sets.           *)
(*                                                                         *)
(* Three specifications share the variables:                               *)
(*   Spec            the download pipeline, run MaxRuns times in sequence  *)
(*   SpecRedirect    get_redirected_url against a fixed server, called     *)
(*                   twice (on a URL, then on its own result)              *)
(*   SpecSupervisor  run_subprocess_in_macro_window interleaved with its   *)
(*                   child process                                         *)
(***************************************************************************)
EXTENDS Integers, Sequences, FiniteSets, TLC

VARIABLES
    \* ---- download-fontmake-pyz-from-gh.py ----
    pc,            \* position of main / download_and_extract_zip
    run,           \* number of the current invocation of main (0 = none yet)
    latest,        \* response of GET /releases/latest, in flight
    tag_name,      \* the tag main passes to download_and_extract_zip
    version,       \* local of download_and_extract_zip
    zip_filename,  \* local of download_and_extract_zip
    reqTag,        \* the tag in the path of GET /releases/tags/{tag}
    resp,          \* response of GET /releases/tags/{tag}, in flight
    zip_url,       \* local of download_and_extract_zip
    transfer,      \* what became of the archive's byte transfer in this run
    rurl,          \* argument of the innermost get_redirected_url frame
    fs,            \* output_dir: name -> entry
    fs0,           \* output_dir as it was when the current run began
    reqs,          \* kinds of HTTP request issued by the current run
    outcome,       \* how the current run ended
    prev,          \* tag and outcome of the run before
    \* ---- get_redirected_url against a fixed server ----
    headMap,       \* the server: request target -> HEAD response
    rphase,        \* "call1", "ret1", "call2", "ret2"
    rarg,          \* the URL of the first call
    hops,          \* redirects followed so far by the current call
    rres1,         \* result of the first call
    rres2,         \* result of the second call
    \* ---- export-font-with-fontmake.py ----
    nlines,        \* N: lines the child emits before it exits
    exitcode,      \* the child's exit code
    capture_output,\* parameter of run_subprocess_in_macro_window
    check,         \* parameter of run_subprocess_in_macro_window
    cpc,           \* child: "running", "closed" (stdout closed), "exited"
    emitted,       \* lines the child has written so far
    pipe,          \* lines in the pipe, written and not yet read
    spc,           \* supervisor: "poll", "reading", "wait", "done", "raised"
    console,       \* lines written to sys.stdout (the Macro window)
    output,        \* the io.StringIO accumulator
    result         \* the CompletedProcess returned

installVars == <<pc, run, latest, tag_name, version, zip_filename, reqTag, resp,
                 zip_url, transfer, fs, fs0, reqs, outcome, prev>>
redirectVars == <<headMap, rphase, rarg, hops, rres1, rres2>>
supervisorVars == <<nlines, exitcode, capture_output, check, cpc, emitted, pipe,
                    spc, console, output, result>>
vars == <<installVars, rurl, redirectVars, supervisorVars>>

(***************************************************************************)
(* Bounds of the model.                                                    *)
(***************************************************************************)
MaxRuns == 2        \* invocations of main in one behaviour
MaxAssets == 2      \* length of a release's asset list
HopCap == 12        \* the hop counter saturates here (the code has no limit)
MaxLines == 3       \* lines a child emits
PipeCap == 3        \* lines the pipe holds before the child blocks
MaxTagLen == 3      \* length of the tags drawn from TagChars

(***************************************************************************)
(* Names.                                                                  *)
(***************************************************************************)
Tags == { <<"v", "1">>, <<"1">>, <<"v", "3", ".", "7", ".", "0">> }

StartsWith(s, c) == Len(s) > 0 /\ s[1] = c

\* A variant of NormalizeVersion: version = tag_name.lstrip("v")
RECURSIVE StripAllLeadingV(_)
StripAllLeadingV(t) ==
    IF StartsWith(t, "v") THEN StripAllLeadingV(SubSeq(t, 2, Len(t))) ELSE t

\* version = tag_name; if version.startswith("v"): version = version[1:]
NormalizeVersion(t) == IF StartsWith(t, "v") THEN SubSeq(t, 2, Len(t)) ELSE t

\* FONTMAKE_ZIP.format(version=version)
FONTMAKE_ZIP(v) ==
    <<"fontmake-">> \o v \o <<"-cp311-cp311-macosx_11_0_universal2", ".zip">>

\* f"fontmake-{version}.pyz"
PyzName(v) == <<"fontmake-">> \o v \o <<".pyz">>

\* Path.stem: the name without its last suffix
Suffixes == {".zip", ".pyz", ".whl"}
Stem(name) ==
    IF Len(name) > 1 /\ name[Len(name)] \in Suffixes
    THEN SubSeq(name, 1, Len(name) - 1)
    ELSE name

Versions == { <<"1">>, <<"3", ".", "7", ".", "0">> }

(***************************************************************************)
(* URLs.  A URL is <<netloc, path, query>>; a request is addressed by      *)
(* netloc and path alone.                                                  *)
(***************************************************************************)
U1 == <<"github.com", "/dl/a", "">>
U2 == <<"objects.example", "/b", "">>
U3 == <<"objects.example", "/b", "sig">>
U4 == <<"cdn.example", "/c", "">>
URLs == {U1, U2, U3, U4}
NoURL == <<>>
AssetURLs == {U1, U4}

\* urllib.parse.urlsplit(url)
UrlSplit(url) == [netloc |-> url[1], path |-> url[2], query |-> url[3]]

\* HTTPSConnection(url_parts.netloc); conn.request(method, url_parts.path)
RequestTarget(url) == <<UrlSplit(url).netloc, UrlSplit(url).path>>

Targets == {RequestTarget(u) : u \in URLs}

HeadResponses ==
    [status : {200, 404}, location : {NoURL}]
    \cup [status : {301, 302, 303, 307, 308}, location : URLs]

\* A variant of get_redirected_url: 307 left out of the redirect statuses.
get_redirected_url_no_307(url, response) ==
    IF response.status \in {301, 302, 303}
    THEN [recurse |-> TRUE, url |-> response.location]
    ELSE [recurse |-> FALSE, url |-> url]

\* One frame of get_redirected_url, given the HEAD response: either recurse
\* on the Location header or return url.
get_redirected_url(url, response) ==
    IF response.status \in {301, 302, 303, 307}
    THEN [recurse |-> TRUE, url |-> response.location]
    ELSE [recurse |-> FALSE, url |-> url]

(***************************************************************************)
(* The release API.                                                        *)
(***************************************************************************)
LatestBodies ==
    [kind : {"not_json", "no_tag", "null_tag"}, tag : {<<>>}]
    \cup [kind : {"tag"}, tag : Tags]
LatestResponses == [status : {200, 403, 404}, body : LatestBodies]
NoLatest == [status |-> 0, body |-> [kind |-> "none", tag |-> <<>>]]

\* A variant of get_latest_release_tag: the status is not looked at.
get_latest_release_tag_any_status(r) ==
    IF r.body.kind \in {"not_json", "no_tag"} THEN [kind |-> "raise", tag |-> <<>>]
    ELSE IF r.body.kind = "null_tag" THEN [kind |-> "none", tag |-> <<>>]
    ELSE [kind |-> "value", tag |-> r.body.tag]

\* get_latest_release_tag, given the response: the value returned (a tag or
\* None), or the exception raised by json.loads / data["tag_name"].
get_latest_release_tag(r) ==
    IF r.status # 200 THEN [kind |-> "none", tag |-> <<>>]
    ELSE IF r.body.kind = "not_json" THEN [kind |-> "raise", tag |-> <<>>]
    ELSE IF r.body.kind = "no_tag" THEN [kind |-> "raise", tag |-> <<>>]
    ELSE IF r.body.kind = "null_tag" THEN [kind |-> "none", tag |-> <<>>]
    ELSE [kind |-> "value", tag |-> r.body.tag]

AssetNames ==
    {FONTMAKE_ZIP(v) : v \in Versions}
    \cup { <<"fontmake-", "1", "-py3-none-any", ".whl">> }
Assets == [name : AssetNames, url : AssetURLs]
AssetLists == UNION {[1..n -> Assets] : n \in 0..MaxAssets}
TagResponses ==
    [status : {200}, kind : {"json"}, assets : AssetLists]
    \cup [status : {200}, kind : {"not_json"}, assets : {<<>>}]
    \cup [status : {403, 404}, kind : {"json"}, assets : {<<>>}]
NoResp == [status |-> 0, kind |-> "none", assets |-> <<>>]

\* A variant of FindAsset: the loop without its break (the last match wins).
RECURSIVE FindLastAsset(_, _)
FindLastAsset(assets, name) ==
    IF assets = <<>> THEN NoURL
    ELSE IF assets[Len(assets)].name = name THEN assets[Len(assets)].url
    ELSE FindLastAsset(SubSeq(assets, 1, Len(assets) - 1), name)

\* zip_url = None; for asset in assets: if asset["name"] == zip_filename:
\*     zip_url = asset["browser_download_url"]; break
RECURSIVE FindAsset(_, _)
FindAsset(assets, name) ==
    IF assets = <<>> THEN NoURL
    ELSE IF Head(assets).name = name THEN Head(assets).url
    ELSE FindAsset(Tail(assets), name)

(***************************************************************************)
(* The archive and the file system.                                        *)
(***************************************************************************)
NoFiles == [n \in {} |-> "file"]
Inners ==
    { NoFiles,
      [n \in {"fontmake"} |-> "dir"],
      [n \in {"fontmake", "extra"} |-> "file"] }

\* The top-level directory a release archive holds.
ArchiveDir(v) == <<"fontmake-">> \o v \o <<"-cp311-cp311-macosx_11_0_universal2">>

NoArchive == [kind |-> "none", top |-> <<>>, inner |-> NoFiles]
PartialArchive == [kind |-> "partial", top |-> <<>>, inner |-> NoFiles]
CorruptArchive == [kind |-> "corrupt", top |-> <<>>, inner |-> NoFiles]
Archives ==
    {CorruptArchive}
    \cup [kind : {"zip"}, top : {ArchiveDir(v) : v \in Versions}, inner : Inners]

File(a, n) == [kind |-> "file", arch |-> a, run |-> n, files |-> NoFiles]
Dir(f) == [kind |-> "dir", arch |-> NoArchive, run |-> 0, files |-> f]

Exists(f, name) == name \in DOMAIN f
IsDir(f, name) == Exists(f, name) /\ f[name].kind = "dir"
Write(f, name, e) == [n \in DOMAIN f \cup {name} |-> IF n = name THEN e ELSE f[n]]
Remove(f, name) == [n \in DOMAIN f \ {name} |-> f[n]]
EmptyFs == [n \in {} |-> File(NoArchive, 0)]

\* ZipFile.extractall(output_dir) of archive a in run r: the archive's
\* directory is created or merged into, its members overwrite files of the
\* same name.  A member that meets an entry of the other kind (a file where a
\* directory is, or the reverse) makes extractall raise.
ExtractConflict(f, a) ==
    /\ IsDir(f, a.top)
    /\ \E n \in DOMAIN a.inner \cap DOMAIN f[a.top].files :
          f[a.top].files[n].kind # a.inner[n]
ExtractAll(f, a, r) ==
    LET old == IF IsDir(f, a.top) THEN f[a.top].files ELSE NoFiles
        new == [n \in DOMAIN old \cup DOMAIN a.inner |->
                   IF n \in DOMAIN a.inner
                   THEN [kind |-> a.inner[n], run |-> r]
                   ELSE old[n]]
    IN  Write(f, a.top, Dir(new))

\* A variant of IsFontmakeFile: fontmake_exe.exists()
FontmakeExists(f, d) == "fontmake" \in DOMAIN f[d].files

\* fontmake_exe.is_file()
IsFontmakeFile(f, d) ==
    /\ "fontmake" \in DOMAIN f[d].files
    /\ f[d].files["fontmake"].kind = "file"

\* A variant of RenameAndCleanUp: the archive is not unlinked.
RenameAndKeepArchive(f, d, zip, pyz) ==
    Remove(Write(f, pyz, File(NoArchive, f[d].files["fontmake"].run)), d)

\* A variant of RenameAndCleanUp: an artifact already there is not replaced.
RenameUnlessInstalled(f, d, zip, pyz) ==
    LET renamed == IF Exists(f, pyz) THEN f
                   ELSE Write(f, pyz, File(NoArchive, f[d].files["fontmake"].run))
    IN  Remove(Remove(renamed, d), zip)

\* fontmake_exe.rename(...); shutil.rmtree(extracted_dir, ignore_errors=True);
\* zip_path.unlink()
RenameAndCleanUp(f, d, zip, pyz) ==
    LET renamed == Write(f, pyz, File(NoArchive, f[d].files["fontmake"].run))
        rmtree == Remove(renamed, d)
    IN  Remove(rmtree, zip)

NoPrev == [outcome |-> "none", tag |-> <<>>]

(***************************************************************************)
(* main and download_and_extract_zip, step by step.                        *)
(***************************************************************************)
Finish(o) == pc' = "done" /\ outcome' = o

\* main is invoked (again): get_latest_release_tag sends its GET.
MainStart ==
    /\ pc \in {"idle", "done"}
    /\ run < MaxRuns
    /\ run' = run + 1
    /\ prev' = IF pc = "done"
               THEN [outcome |-> outcome, tag |-> tag_name]
               ELSE prev
    /\ \E r \in LatestResponses : latest' = r
    /\ reqs' = {"latest"}
    /\ fs0' = fs
    /\ pc' = "latest"
    /\ outcome' = "running"
    /\ tag_name' = <<>> /\ version' = <<>> /\ zip_filename' = <<>>
    /\ reqTag' = <<>> /\ resp' = NoResp /\ zip_url' = NoURL
    /\ transfer' = "none"
    /\ UNCHANGED <<fs, rurl, redirectVars, supervisorVars>>

\* get_latest_release_tag returns or raises; main checks for None and calls
\* download_and_extract_zip, which computes the names and sends its GET.
MainLatestTag ==
    /\ pc = "latest"
    /\ LET got == get_latest_release_tag(latest) IN
       /\ latest' = NoLatest
       /\ IF got.kind = "raise"
          THEN /\ Finish("raised")
               /\ UNCHANGED <<tag_name, version, zip_filename, reqTag, resp, reqs>>
          ELSE IF got.kind = "none"
          THEN /\ Finish("no_tag")
               /\ UNCHANGED <<tag_name, version, zip_filename, reqTag, resp, reqs>>
          ELSE /\ tag_name' = got.tag
               /\ version' = NormalizeVersion(got.tag)
               /\ zip_filename' = FONTMAKE_ZIP(NormalizeVersion(got.tag))
               /\ reqTag' = got.tag
               /\ reqs' = reqs \cup {"bytag"}
               /\ \E r \in TagResponses : resp' = r
               /\ pc' = "assets"
               /\ UNCHANGED outcome
    /\ UNCHANGED <<run, zip_url, transfer, fs, fs0, prev, rurl, redirectVars,
                   supervisorVars>>

\* The release's assets arrive; the asset is looked up.
SelectAsset ==
    /\ pc = "assets"
    /\ resp' = NoResp
    /\ IF resp.status # 200
       THEN Finish("no_release") /\ UNCHANGED <<zip_url, rurl>>
       ELSE IF resp.kind = "not_json"
       THEN Finish("raised") /\ UNCHANGED <<zip_url, rurl>>
       ELSE LET found == FindAsset(resp.assets, zip_filename) IN
            IF found = NoURL
            THEN Finish("no_asset") /\ UNCHANGED <<zip_url, rurl>>
            ELSE /\ zip_url' = found
                 /\ rurl' = found
                 /\ pc' = "redirect"
                 /\ UNCHANGED outcome
    /\ UNCHANGED <<run, latest, tag_name, version, zip_filename, reqTag, transfer,
                   fs, fs0, reqs, prev, redirectVars, supervisorVars>>

\* One frame of get_redirected_url(zip_url): a HEAD request and its answer.
\* The server may answer anything.
PipelineRedirectHead ==
    /\ pc = "redirect"
    /\ reqs' = reqs \cup {"head"}
    /\ \E response \in HeadResponses :
         LET step == get_redirected_url(rurl, response) IN
         IF step.recurse
         THEN /\ rurl' = step.url
              /\ UNCHANGED <<pc, zip_url>>
         ELSE /\ zip_url' = step.url
              /\ rurl' = NoURL
              /\ pc' = "download"
    /\ UNCHANGED <<run, latest, tag_name, version, zip_filename, reqTag, resp,
                   transfer, fs, fs0, outcome, prev, redirectVars, supervisorVars>>

\* What urlretrieve may meet: an HTTP error status (HTTPError, raised before
\* the file is opened), no connection (URLError), a transfer that breaks off
\* (ContentTooShortError or a socket error, after part of the file is
\* written), or the whole archive.
TransferResults ==
    [kind : {"http_error", "url_error", "short"}, arch : {NoArchive}]
    \cup [kind : {"ok"}, arch : Archives]

\* A variant of Download: the except clause prints and does not return.
DownloadFallsThrough ==
    /\ pc = "download"
    /\ reqs' = reqs \cup {"download"}
    /\ \E t \in TransferResults :
         /\ transfer' = t.kind
         /\ IF t.kind = "http_error"
            THEN pc' = "extract" /\ UNCHANGED <<fs, outcome>>
            ELSE IF t.kind = "url_error"
            THEN Finish("raised") /\ UNCHANGED fs
            ELSE IF t.kind = "short"
            THEN /\ Finish("raised")
                 /\ fs' = Write(fs, zip_filename, File(PartialArchive, run))
            ELSE /\ fs' = Write(fs, zip_filename, File(t.arch, run))
                 /\ pc' = "extract"
                 /\ UNCHANGED outcome
    /\ UNCHANGED <<run, latest, tag_name, version, zip_filename, reqTag, resp,
                   zip_url, fs0, prev, rurl, redirectVars, supervisorVars>>

\* urllib.request.urlretrieve(zip_url, zip_path); only HTTPError is caught
\* (print and return), any other exception leaves the function.
Download ==
    /\ pc = "download"
    /\ reqs' = reqs \cup {"download"}
    /\ \E t \in TransferResults :
         /\ transfer' = t.kind
         /\ IF t.kind = "http_error"
            THEN Finish("download_failed") /\ UNCHANGED fs
            ELSE IF t.kind = "url_error"
            THEN Finish("raised") /\ UNCHANGED fs
            ELSE IF t.kind = "short"
            THEN /\ Finish("raised")
                 /\ fs' = Write(fs, zip_filename, File(PartialArchive, run))
            ELSE /\ fs' = Write(fs, zip_filename, File(t.arch, run))
                 /\ pc' = "extract"
                 /\ UNCHANGED outcome
    /\ UNCHANGED <<run, latest, tag_name, version, zip_filename, reqTag, resp,
                   zip_url, fs0, prev, rurl, redirectVars, supervisorVars>>

\* zipfile.ZipFile(zip_path).extractall(output_dir); extracted_dir.is_dir().
\* ZipFile raises on a missing or broken file, extractall on a conflict.
Extract ==
    /\ pc = "extract"
    /\ LET a == IF Exists(fs, zip_filename) THEN fs[zip_filename].arch
                ELSE NoArchive IN
       IF a.kind # "zip" \/ ExtractConflict(fs, a)
       THEN Finish("raised") /\ UNCHANGED fs
       ELSE /\ fs' = ExtractAll(fs, a, run)
            /\ IF IsDir(fs', Stem(zip_filename))
               THEN pc' = "validate" /\ UNCHANGED outcome
               ELSE Finish("extract_failed")
    /\ UNCHANGED <<run, latest, tag_name, version, zip_filename, reqTag, resp,
                   zip_url, transfer, fs0, reqs, prev, rurl, redirectVars,
                   supervisorVars>>

\* fontmake_exe.is_file(); rename; rmtree; unlink
Install ==
    /\ pc = "validate"
    /\ LET d == Stem(zip_filename) IN
       IF IsFontmakeFile(fs, d)
       THEN /\ fs' = RenameAndCleanUp(fs, d, zip_filename, PyzName(version))
            /\ Finish("installed")
       ELSE Finish("no_fontmake") /\ UNCHANGED fs
    /\ UNCHANGED <<run, latest, tag_name, version, zip_filename, reqTag, resp,
                   zip_url, transfer, fs0, reqs, prev, rurl, redirectVars,
                   supervisorVars>>

(***************************************************************************)
(* get_redirected_url against a server whose answer to a HEAD request is a *)
(* function of the request (headMap), called on rarg and then on its own   *)
(* result.                                                                 *)
(***************************************************************************)
Bump(h) == IF h < HopCap THEN h + 1 ELSE h

\* One frame: the HEAD request, the answer, and the recursion or the return.
RedirectHead ==
    /\ rphase \in {"call1", "call2"}
    /\ LET step == get_redirected_url(rurl, headMap[RequestTarget(rurl)]) IN
       IF step.recurse
       THEN /\ rurl' = step.url
            /\ hops' = Bump(hops)
            /\ UNCHANGED <<rphase, rres1, rres2>>
       ELSE /\ rurl' = NoURL
            /\ UNCHANGED hops
            /\ IF rphase = "call1"
               THEN rphase' = "ret1" /\ rres1' = step.url /\ UNCHANGED rres2
               ELSE rphase' = "ret2" /\ rres2' = step.url /\ UNCHANGED rres1
    /\ UNCHANGED <<headMap, rarg, installVars, supervisorVars>>

\* The caller calls get_redirected_url again, on the URL it got.
RedirectCallAgain ==
    /\ rphase = "ret1"
    /\ rphase' = "call2"
    /\ rurl' = rres1
    /\ hops' = 0
    /\ UNCHANGED <<headMap, rarg, rres1, rres2, installVars, supervisorVars>>

(***************************************************************************)
(* run_subprocess_in_macro_window and its child.  The child writes its     *)
(* lines (line i is the number i) to the pipe that Popen made of its       *)
(* stdout and stderr, closes it and exits; the supervisor polls, reads and *)
(* waits.                                                                  *)
(***************************************************************************)
NoResult == [returncode |-> 0 - 1, captured |-> FALSE, stdout |-> <<>>]

ChildEmit ==
    /\ cpc = "running"
    /\ emitted < nlines
    /\ Len(pipe) < PipeCap
    /\ emitted' = emitted + 1
    /\ pipe' = Append(pipe, emitted + 1)
    /\ UNCHANGED <<nlines, exitcode, capture_output, check, cpc, spc, console,
                   output, result, installVars, rurl, redirectVars>>

\* The child is done writing: its end of the pipe closes.
ChildClose ==
    /\ cpc = "running"
    /\ emitted = nlines
    /\ cpc' = "closed"
    /\ UNCHANGED <<nlines, exitcode, capture_output, check, emitted, pipe, spc,
                   console, output, result, installVars, rurl, redirectVars>>

\* The child has exited: poll() and wait() now see its exit code.
ChildExit ==
    /\ cpc = "closed"
    /\ cpc' = "exited"
    /\ UNCHANGED <<nlines, exitcode, capture_output, check, emitted, pipe, spc,
                   console, output, result, installVars, rurl, redirectVars>>

\* while process.poll() is None:
SupervisorPoll ==
    /\ spc = "poll"
    /\ spc' = IF cpc = "exited" THEN "wait" ELSE "reading"
    /\ UNCHANGED <<nlines, exitcode, capture_output, check, cpc, emitted, pipe,
                   console, output, result, installVars, rurl, redirectVars>>

\* for line in process.stdout: sys.stdout.write(line); output.write(line)
SupervisorReadLine ==
    /\ spc = "reading"
    /\ pipe # <<>>
    /\ pipe' = Tail(pipe)
    /\ console' = Append(console, Head(pipe))
    /\ output' = IF capture_output THEN Append(output, Head(pipe)) ELSE output
    /\ UNCHANGED <<nlines, exitcode, capture_output, check, cpc, emitted, spc,
                   result, installVars, rurl, redirectVars>>

\* The for loop ends at end of file: the pipe is empty and closed.
SupervisorReadEOF ==
    /\ spc = "reading"
    /\ pipe = <<>>
    /\ cpc # "running"
    /\ spc' = "poll"
    /\ UNCHANGED <<nlines, exitcode, capture_output, check, cpc, emitted, pipe,
                   console, output, result, installVars, rurl, redirectVars>>

\* returncode = process.wait(); the CalledProcessError or the CompletedProcess
SupervisorWait ==
    /\ spc = "wait"
    /\ cpc = "exited"
    /\ IF check /\ exitcode # 0
       THEN spc' = "raised" /\ UNCHANGED result
       ELSE /\ spc' = "done"
            /\ result' = [returncode |-> exitcode,
                          captured |-> capture_output,
                          stdout |-> IF capture_output THEN output ELSE <<>>]
    /\ UNCHANGED <<nlines, exitcode, capture_output, check, cpc, emitted, pipe,
                   console, output, installVars, rurl, redirectVars>>

(***************************************************************************)
(* Initial values of the three groups of variables.                        *)
(***************************************************************************)
InstallIdle ==
    /\ pc = "idle" /\ run = 0 /\ latest = NoLatest
    /\ tag_name = <<>> /\ version = <<>> /\ zip_filename = <<>>
    /\ reqTag = <<>> /\ resp = NoResp /\ zip_url = NoURL /\ transfer = "none"
    /\ fs = EmptyFs /\ fs0 = EmptyFs /\ reqs = {} /\ outcome = "none"
    /\ prev = NoPrev
RedirectIdle ==
    /\ headMap = [t \in Targets |-> [status |-> 200, location |-> NoURL]]
    /\ rphase = "none" /\ rarg = NoURL /\ hops = 0
    /\ rres1 = NoURL /\ rres2 = NoURL
SupervisorIdle ==
    /\ nlines = 0 /\ exitcode = 0 /\ capture_output = FALSE /\ check = FALSE
    /\ cpc = "none" /\ emitted = 0 /\ pipe = <<>> /\ spc = "none"
    /\ console = <<>> /\ output = <<>>
    /\ result = NoResult

Init ==
    /\ InstallIdle
    /\ rurl = NoURL
    /\ RedirectIdle
    /\ SupervisorIdle

Next ==
    \/ MainStart
    \/ MainLatestTag
    \/ SelectAsset
    \/ PipelineRedirectHead
    \/ Download
    \/ Extract
    \/ Install

Spec == Init /\ [][Next]_vars

InitRedirect ==
    /\ InstallIdle
    /\ SupervisorIdle
    /\ headMap \in [Targets -> HeadResponses]
    /\ rarg \in URLs
    /\ rurl = rarg
    /\ rphase = "call1" /\ hops = 0 /\ rres1 = NoURL /\ rres2 = NoURL

NextRedirect ==
    \/ RedirectHead
    \/ RedirectCallAgain

SpecRedirect == InitRedirect /\ [][NextRedirect]_vars

InitSupervisor ==
    /\ InstallIdle
    /\ rurl = NoURL
    /\ RedirectIdle
    /\ nlines \in 0..MaxLines
    /\ exitcode \in {0, 1}
    /\ capture_output \in BOOLEAN
    /\ check \in BOOLEAN
    /\ cpc = "running" /\ emitted = 0 /\ pipe = <<>>
    /\ spc = "poll" /\ console = <<>> /\ output = <<>> /\ result = NoResult

NextSupervisor ==
    \/ ChildEmit
    \/ ChildClose
    \/ ChildExit
    \/ SupervisorPoll
    \/ SupervisorReadLine
    \/ SupervisorReadEOF
    \/ SupervisorWait

SpecSupervisor == InitSupervisor /\ [][NextSupervisor]_vars

\* One run of main for every tag the latest release may carry.
TagChars == {"v", "1", "."}
AllTags ==
    Tags \cup UNION {[1..n -> TagChars] : n \in 0..MaxTagLen}
InitNames ==
    /\ pc = "latest" /\ run = 1
    /\ latest \in [status : {200}, body : [kind : {"tag"}, tag : AllTags]]
    /\ tag_name = <<>> /\ version = <<>> /\ zip_filename = <<>>
    /\ reqTag = <<>> /\ resp = NoResp /\ zip_url = NoURL /\ transfer = "none"
    /\ fs = EmptyFs /\ fs0 = EmptyFs /\ reqs = {"latest"} /\ outcome = "running"
    /\ prev = NoPrev
    /\ rurl = NoURL
    /\ RedirectIdle
    /\ SupervisorIdle

NextNames ==
    \/ MainLatestTag
    \/ SelectAsset
    \/ PipelineRedirectHead
    \/ Download
    \/ Extract
    \/ Install

SpecNames == InitNames /\ [][NextNames]_vars

(***************************************************************************)
(* The properties.  The names they expect are written out from the tag,    *)
(* apart from the operators the pipeline computes them with.               *)
(***************************************************************************)
ExpectedVersion(t) == IF t # <<>> /\ Head(t) = "v" THEN Tail(t) ELSE t
ExpectedZip(t) ==
    <<"fontmake-">> \o ExpectedVersion(t)
        \o <<"-cp311-cp311-macosx_11_0_universal2", ".zip">>
ExpectedDir(t) ==
    <<"fontmake-">> \o ExpectedVersion(t) \o <<"-cp311-cp311-macosx_11_0_universal2">>
ExpectedPyz(t) == <<"fontmake-">> \o ExpectedVersion(t) \o <<".pyz">>

HasRegularFontmake(f, d) ==
    /\ d \in DOMAIN f /\ f[d].kind = "dir"
    /\ \E n \in DOMAIN f[d].files : n = "fontmake" /\ f[d].files[n].kind = "file"

\* The entry called n is the same in f and g: absent in both, or equal.
SameEntry(f, g, n) ==
    /\ (n \in DOMAIN f) = (n \in DOMAIN g)
    /\ n \in DOMAIN f => f[n] = g[n]

\* C1: when the asset was found, the download succeeded and the archive
\* extracted to {stem} holding a regular file fontmake, the function returns
\* with fontmake-{version}.pyz in output_dir, exactly once, and with neither
\* the archive file nor the extracted directory left.
InstallLeavesOnlyArtifact ==
    [][ (pc = "validate" /\ transfer = "ok"
            /\ HasRegularFontmake(fs, ExpectedDir(tag_name)))
        => /\ pc' = "done"
           /\ ExpectedPyz(tag_name) \in DOMAIN fs'
           /\ fs'[ExpectedPyz(tag_name)].kind = "file"
           /\ Cardinality({n \in DOMAIN fs' : n = ExpectedPyz(tag_name)}) = 1
           /\ ExpectedZip(tag_name) \notin DOMAIN fs'
           /\ ExpectedDir(tag_name) \notin DOMAIN fs' ]_vars

InstallLeavesOnlyArtifact_Witness ==
    /\ pc = "done" /\ outcome = "installed" /\ transfer = "ok"
    /\ ExpectedPyz(tag_name) \in DOMAIN fs
    /\ ExpectedZip(tag_name) \notin DOMAIN fs
    /\ ExpectedDir(tag_name) \in DOMAIN fs0

\* C2 (as the claim states it): a child that emits N lines and exits 0 gives,
\* under every interleaving, a result with returncode 0 and with stdout the
\* N lines in the order they were emitted.
SupervisorCapturesEveryLine ==
    (spc = "done" /\ capture_output /\ exitcode = 0)
    => /\ result.returncode = 0
       /\ result.stdout = [i \in 1..nlines |-> i]

\* C3: when the extracted directory holds no regular file fontmake, the
\* function fails there, and fontmake-{version}.pyz is as it was before the
\* run: not created, not modified.
MissingFontmakeLeavesArtifactAlone ==
    [][ (pc = "validate" /\ ~HasRegularFontmake(fs, ExpectedDir(tag_name)))
        => /\ pc' = "done"
           /\ outcome' = "no_fontmake"
           /\ SameEntry(fs', fs0, ExpectedPyz(tag_name)) ]_vars

MissingFontmakeLeavesArtifactAlone_Witness ==
    /\ pc = "done" /\ outcome = "no_fontmake"
    /\ ExpectedPyz(tag_name) \in DOMAIN fs
    /\ ExpectedDir(tag_name) \in DOMAIN fs
    /\ "fontmake" \in DOMAIN fs[ExpectedDir(tag_name)].files

\* C4: the URL the resolver hands on is the browser_download_url of the first
\* asset, in list order, whose name equals the expected file name; with no
\* such asset the run ends there, having sent no HEAD request, downloaded
\* nothing and changed nothing in output_dir.
MatchingAssets(assets, name) == {i \in 1..Len(assets) : assets[i].name = name}
FirstOf(S) == CHOOSE i \in S : \A j \in S : i <= j
FirstMatchingAssetIsResolved ==
    [][ (pc = "assets" /\ resp.status = 200 /\ resp.kind = "json")
        => LET m == MatchingAssets(resp.assets, ExpectedZip(tag_name)) IN
           IF m # {}
           THEN /\ pc' = "redirect"
                /\ zip_url' = resp.assets[FirstOf(m)].url
                /\ rurl' = resp.assets[FirstOf(m)].url
           ELSE /\ pc' = "done"
                /\ outcome' = "no_asset"
                /\ reqs' \cap {"head", "download"} = {}
                /\ fs' = fs0 ]_vars

FirstMatchingAssetIsResolved_Witness ==
    /\ pc = "assets" /\ resp.status = 200 /\ Len(resp.assets) = 2
    /\ resp.assets[1].name = ExpectedZip(tag_name)
    /\ resp.assets[2].name = ExpectedZip(tag_name)
    /\ resp.assets[1].url # resp.assets[2].url
    /\ DOMAIN fs # {}

\* C5: along a chain url_0 -> ... -> url_N whose HEAD answers are 301, 302,
\* 303 or 307 with Location url_{i+1}, and 200 for url_N, the call on url_0
\* returns url_N, and the call on that result returns url_N again.
Reaches(u) == headMap[<<u[1], u[2]>>]
IsChain(c) ==
    /\ c[1] = rarg
    /\ \A i \in 1..(Len(c) - 1) :
          /\ Reaches(c[i]).status \in {301, 302, 303, 307}
          /\ Reaches(c[i]).location = c[i + 1]
    /\ Reaches(c[Len(c)]).status = 200
Chains == UNION {[1..n -> URLs] : n \in 1..Cardinality(Targets)}
RedirectChainIsResolved ==
    \A c \in Chains :
        IsChain(c) =>
            /\ rphase = "call1" => (hops < Len(c) /\ rurl = c[hops + 1])
            /\ rphase \in {"ret1", "call2", "ret2"} => rres1 = c[Len(c)]
            /\ rphase = "call2" => (hops = 0 /\ rurl = c[Len(c)])
            /\ rphase = "ret2" => rres2 = c[Len(c)]

RedirectChainIsResolved_Witness ==
    /\ rphase = "ret2"
    /\ \E c \in Chains : IsChain(c) /\ Len(c) = 3 /\ rres2 = c[3] /\ rres1 = c[3]

\* C6: when the latest-release request yields no tag (status not 200, body
\* not JSON, or no tag_name in it), the run ends in a failure with nothing
\* requested beyond that one GET and output_dir as it was.
YieldsNoTag(r) ==
    \/ r.status # 200
    \/ r.body.kind = "not_json"
    \/ r.body.kind = "no_tag"
NoTagHaltsMain ==
    [][ (pc = "latest" /\ YieldsNoTag(latest))
        => /\ pc' = "done"
           /\ outcome' \in {"no_tag", "raised"}
           /\ reqs' = {"latest"}
           /\ fs' = fs0 ]_vars

NoTagHaltsMain_Witness ==
    /\ pc = "done" /\ outcome = "no_tag" /\ reqs = {"latest"}
    /\ DOMAIN fs # {} /\ fs = fs0

\* C7: when the byte transfer fails, the function ends in a failure, and
\* every entry of output_dir other than the archive file is as it was before
\* the call.
TransferFailed == transfer \in {"http_error", "url_error", "short"}
FailedTransferTouchesOnlyArchive ==
    TransferFailed
    => /\ pc = "done"
       /\ outcome \in {"download_failed", "raised"}
       /\ \A n \in (DOMAIN fs \cup DOMAIN fs0) \ {ExpectedZip(tag_name)} :
             SameEntry(fs, fs0, n)

FailedTransferTouchesOnlyArchive_Witness ==
    /\ transfer = "short" /\ pc = "done"
    /\ ExpectedPyz(tag_name) \in DOMAIN fs
    /\ ExpectedZip(tag_name) \in DOMAIN fs
    /\ fs[ExpectedZip(tag_name)].arch.kind = "partial"

\* C8: the version in the archive name and in the artifact name is the tag
\* without its first character when that is "v" (one "v" only), and the tag
\* itself otherwise; the release is requested by the tag as it is.
Tag370 == <<"v", "3", ".", "7", ".", "0">>
VersionStripsOneLeadingV ==
    pc # "latest"
    => /\ version = ExpectedVersion(tag_name)
       /\ zip_filename = ExpectedZip(tag_name)
       /\ reqTag = tag_name
       /\ outcome = "installed" => ExpectedPyz(tag_name) \in DOMAIN fs
       /\ tag_name = <<"v", "v", "1">> => version = <<"v", "1">>
       /\ tag_name = <<"1", "v">> => version = <<"1", "v">>
       /\ tag_name = Tag370 =>
             /\ zip_filename = <<"fontmake-", "3", ".", "7", ".", "0",
                                 "-cp311-cp311-macosx_11_0_universal2", ".zip">>
             /\ outcome = "installed" =>
                   <<"fontmake-", "3", ".", "7", ".", "0", ".pyz">> \in DOMAIN fs

VersionStripsOneLeadingV_Witness ==
    /\ tag_name = Tag370 /\ outcome = "installed" /\ reqTag = Tag370
    /\ <<"fontmake-", "3", ".", "7", ".", "0", ".pyz">> \in DOMAIN fs

\* C9: a successful install of a tag that follows a successful install of the
\* same tag goes through every stage again, replaces the artifact, and leaves
\* output_dir with the same names as it had after the install before.
ReinstallIsIdempotent ==
    (pc = "done" /\ outcome = "installed"
        /\ prev.outcome = "installed" /\ prev.tag = tag_name)
    => /\ reqs = {"latest", "bytag", "head", "download"}
       /\ ExpectedPyz(tag_name) \in DOMAIN fs0
       /\ ExpectedPyz(tag_name) \in DOMAIN fs
       /\ fs[ExpectedPyz(tag_name)].run = run
       /\ Cardinality({n \in DOMAIN fs : n = ExpectedPyz(tag_name)}) = 1
       /\ DOMAIN fs = DOMAIN fs0

ReinstallIsIdempotent_Witness ==
    /\ pc = "done" /\ outcome = "installed" /\ run = 2
    /\ prev.outcome = "installed" /\ prev.tag = tag_name
    /\ fs[ExpectedPyz(tag_name)].run = 2
    /\ fs0[ExpectedPyz(tag_name)].run = 1

\* C10 (as the claim states it): one call of get_redirected_url follows at
\* most 10 redirects, whatever the server answers.
RedirectHopsAreBounded == hops <= 10

====
